---- MODULE Spec2Model ----
(***************************************************************************)
(* State-machine model of the graph-mutation engine of spider_net/net.py:  *)
(* Edge (operation set, deadhead, growth record), Cell (edge mapping,      *)
(* split_edge, set_op_order) and Net (growth snapshot, size table, mutate).*)
(***************************************************************************)
EXTENDS Integers, Sequences, FiniteSets, TLC

VARIABLES
    cells,              \* Net.cells: position <<chain, cell_idx>> -> Cell
    heap,               \* the Edge objects each Cell has constructed, in construction order
    hypers,             \* Net.gpu_space, Net.mut_metric and Net.epoch
    pc,                 \* "idle", or "loop" while a mutate(n) call is running
    n_arg,              \* mutate: the argument n
    step_i,             \* mutate: the loop variable i
    mutations,          \* mutate: local list
    new_edges,          \* mutate: local list (references <<position, object>>)
    mutation_in_chain,  \* mutate: local set
    outcome,            \* how the last mutate call ended: "none", "returned" or "raised"
    steps,              \* log of the steps of the current / last mutate call
    last_split,         \* log of the last Cell.split_edge call
    calls,              \* number of top-level calls made so far
    mutate_calls,       \* number of mutate calls made so far
    ret                 \* the last value returned by deadhead, set_op_order or a forward pass

vars == <<cells, heap, hypers, pc, n_arg, step_i, mutations, new_edges,
          mutation_in_chain, outcome, steps, last_split, calls, mutate_calls, ret>>

(***************************************************************************)
(* Bounds of the model.                                                    *)
(***************************************************************************)
NumChains == 1        \* hypers['chains']
Reductions == 1       \* hypers['reductions']; a chain has Reductions + 1 cells
MaxCellCalls == 3     \* direct split_edge / deadhead calls in a run of CellSpec
MaxNetCalls == 2      \* compile_growth_factors / deadhead / mutate calls in a run of Spec
MaxMutateCalls == 1   \* of which mutate calls
MaxN == 3             \* largest n passed to mutate(n)
\* the growth factors an operation reports (op.get_growth_factor())
GrowthReports == {[weight |-> <<1>>, grad |-> <<2>>], [weight |-> <<2>>, grad |-> <<1>>]}
Sizes == {0, 1}       \* the footprints the size probe reports
Budgets == {1, 3}     \* the values of hypers['gpu_space'] tried
Metrics == {"mean_weight", "mean_grad"}
SortDirs == {"max", "min"}

\* Python's None; a value that may be None is kept as <<v>>
None == <<>>

(***************************************************************************)
(* Generic helpers.                                                        *)
(***************************************************************************)
Range(s) == {s[x] : x \in DOMAIN s}

RECURSIVE SumSeq(_)
SumSeq(s) == IF s = <<>> THEN 0 ELSE Head(s) + SumSeq(Tail(s))

RECURSIVE Flatten(_)
Flatten(ss) == IF ss = <<>> THEN <<>> ELSE Head(ss) \o Flatten(Tail(ss))

MaxOf(S) == CHOOSE x \in S : \A y \in S : y <= x

(***************************************************************************)
(* Keys: "i->j" for edges, "chain,cell" for cells.                         *)
(***************************************************************************)
encode(i, j, s) == <<i, s, j>>

decode(edge, s) == <<edge[1], edge[3]>>

EdgeKey(i, j) == encode(i, j, "->")

(***************************************************************************)
(* The operation catalog and the per-operation pruning gate.               *)
(***************************************************************************)
commons == <<"Identity", "Conv">>

OpMemSize == 512

\* PrunableOperation as the Edge sees it: a name and the zero marker.
PrunableOperation(key) == [name |-> key, zero |-> FALSE]

\* op.pruner.mem_size: the declared footprint, nothing once the operation is removed
mem_size(op) == IF op.zero THEN 0 ELSE OpMemSize

\* edge_counter(): a fresh, increasing name
Count(counter) == [value |-> counter, next |-> counter + 1]

(***************************************************************************)
(* Edge                                                                    *)
(***************************************************************************)
get_edge_size(e) == SumSeq([x \in DOMAIN e.ops |-> mem_size(e.ops[x])])

CountActive(ops) == Cardinality({x \in DOMAIN ops : ~ops[x].zero})

\* Edge.__init__
Edge(operation_set, dim, name, lineage) ==
    LET ops == [x \in DOMAIN operation_set |-> PrunableOperation(operation_set[x])]
        num == CountActive(ops)
    IN  [dim |-> dim,
         name |-> name,
         growth_factor |-> [weight |-> <<>>, grad |-> <<>>],
         shap |-> None,
         lineage |-> lineage,
         ops |-> ops,
         num_ops |-> num,
         norm |-> num # 0,
         zero |-> FALSE]

\* Edge.reset_growth_factor
reset_growth_factor(e) == [e EXCEPT !.growth_factor = [weight |-> <<>>, grad |-> <<>>]]

\* dhs = sum([op.deadhead(prune_interval) ...]): the operations whose gate reports removal
dhs(e, removed) == Cardinality({x \in DOMAIN e.ops : e.ops[x].name \in removed})

\* EdgeDeadhead that keeps the normalization and sets no zero path
EdgeDeadheadKeepsNorm(e, removed) ==
    LET ops == [x \in DOMAIN e.ops |->
                    IF e.ops[x].name \in removed THEN [e.ops[x] EXCEPT !.zero = TRUE]
                    ELSE e.ops[x]]
        num == e.num_ops - dhs(e, removed)
    IN  [e EXCEPT !.ops = ops, !.num_ops = num]

\* Edge.deadhead, given the set of operations whose gate reports removal
EdgeDeadhead(e, removed) ==
    LET ops == [x \in DOMAIN e.ops |->
                    IF e.ops[x].name \in removed THEN [e.ops[x] EXCEPT !.zero = TRUE]
                    ELSE e.ops[x]]
        num == e.num_ops - dhs(e, removed)
    IN  [e EXCEPT !.ops = ops,
                  !.num_ops = num,
                  !.norm = IF num = 0 THEN FALSE ELSE e.norm,
                  !.zero = IF num = 0 THEN TRUE ELSE e.zero]

(***************************************************************************)
(* Cell                                                                    *)
(***************************************************************************)
Keys(edges) == [x \in DOMAIN edges |-> edges[x].key]

HasKey(edges, key) == \E x \in DOMAIN edges : edges[x].key = key

\* self.edges[key]: the reference stored under key
Lookup(edges, key) == edges[CHOOSE x \in DOMAIN edges : edges[x].key = key].ref

\* self.edges[k] = edge on a ModuleDict: overwrite in place, or append
DictSet(edges, key, ref) ==
    IF HasKey(edges, key)
    THEN [x \in DOMAIN edges |-> IF edges[x].key = key THEN [key |-> key, ref |-> ref]
                                 ELSE edges[x]]
    ELSE Append(edges, [key |-> key, ref |-> ref])

RECURSIVE DictFromList(_, _)
DictFromList(acc, items) ==
    IF items = <<>> THEN acc
    ELSE DictFromList(DictSet(acc, Head(items).key, Head(items).ref), Tail(items))

\* the loop of set_op_order over the keys: output_node only ever grows
RECURSIVE OutputNode(_, _)
OutputNode(keys, output_node) ==
    IF keys = <<>> THEN output_node
    ELSE LET j == decode(Head(keys), "->")[2]
         IN  OutputNode(Tail(keys), IF j > output_node THEN j ELSE output_node)

\* node_inputs[node]: the keys leaving node, in encounter order
NodeInputs(keys, node) == SelectSeq(keys, LAMBDA k : decode(k, "->")[1] = node)

\* NodeEntries with the flag on the first key leaving the node
NodeEntriesFirstFlagged(keys, node) ==
    LET out == NodeInputs(keys, node)
    IN  [x \in DOMAIN out |->
            [edge |-> out[x],
             i |-> decode(out[x], "->")[1],
             j |-> decode(out[x], "->")[2],
             last |-> out[x] = out[1]]]

\* the entries [edge, i, j, last] of one source node
NodeEntries(keys, node) ==
    LET out == NodeInputs(keys, node)
    IN  [x \in DOMAIN out |->
            [edge |-> out[x],
             i |-> decode(out[x], "->")[1],
             j |-> decode(out[x], "->")[2],
             last |-> out[x] = out[Len(out)]]]

\* the walk over sorted(node_inputs.keys())
RECURSIVE ForwardOrder(_, _, _)
ForwardOrder(keys, node, top) ==
    IF node > top THEN <<>>
    ELSE NodeEntries(keys, node) \o ForwardOrder(keys, node + 1, top)

\* set_op_order that rebuilds the order but leaves output_node as it was
set_op_order_stale(cell) ==
    LET keys == Keys(cell.edges)
        srcs == {decode(keys[x], "->")[1] : x \in DOMAIN keys}
    IN  [cell EXCEPT !.forward_iterator =
                         IF srcs = {} THEN <<>> ELSE ForwardOrder(keys, 0, MaxOf(srcs))]

\* set_op_order that appends to forward_iterator without emptying it first
set_op_order_appending(cell) ==
    LET keys == Keys(cell.edges)
        srcs == {decode(keys[x], "->")[1] : x \in DOMAIN keys}
    IN  [cell EXCEPT !.output_node = OutputNode(keys, cell.output_node),
                     !.forward_iterator =
                         cell.forward_iterator
                         \o (IF srcs = {} THEN <<>> ELSE ForwardOrder(keys, 0, MaxOf(srcs)))]

\* Cell.set_op_order
set_op_order(cell) ==
    LET keys == Keys(cell.edges)
        srcs == {decode(keys[x], "->")[1] : x \in DOMAIN keys}
    IN  [cell EXCEPT !.output_node = OutputNode(keys, cell.output_node),
                     !.forward_iterator =
                         IF srcs = {} THEN <<>> ELSE ForwardOrder(keys, 0, MaxOf(srcs))]

\* the dims of one chain, flattened: a stride-1 dim per level, a stride-2 dim between levels
ChainDims ==
    [k \in 1..(2 * Reductions + 1) |-> [level |-> k \div 2, stride |-> IF k % 2 = 0 THEN 2 ELSE 1]]

\* cell_dims = self.dims[chain][max(0, cell_idx * 2 - 1):cell_idx * 2 + 1]
CellDims(cell_idx) ==
    LET lo == IF cell_idx * 2 - 1 > 0 THEN cell_idx * 2 - 1 ELSE 0
    IN  SubSeq(ChainDims, lo + 1, cell_idx * 2 + 1)

\* get_new_op_sizes with the two sizes of the stride-2 case in the other order
get_new_op_sizes_swapped(op_keys, orig) ==
    IF orig.dim.stride = 2 THEN <<orig.dim, op_keys[Len(op_keys)]>>
    ELSE <<orig.dim, orig.dim>>

\* Cell.get_new_op_sizes
get_new_op_sizes(op_keys, orig) ==
    IF orig.dim.stride = 2 THEN <<op_keys[Len(op_keys)], orig.dim>>
    ELSE <<orig.dim, orig.dim>>

\* ShiftKey with the destination left alone
ShiftKeySrcOnly(tgt_key, j) ==
    LET t == decode(tgt_key, "->")
    IN  EdgeKey(IF t[1] >= j THEN t[1] + 1 ELSE t[1], t[2])

\* ShiftKey with the source test x > j in place of x >= j
ShiftKeyStrictSrc(tgt_key, j) ==
    LET t == decode(tgt_key, "->")
    IN  EdgeKey(IF t[1] > j THEN t[1] + 1 ELSE t[1], IF t[2] >= j THEN t[2] + 1 ELSE t[2])

\* the renumbering of one other edge's key in split_edge(i->j)
ShiftKey(tgt_key, j) ==
    LET t == decode(tgt_key, "->")
        tgt_i == IF t[1] >= j THEN t[1] + 1 ELSE t[1]
        tgt_j == IF t[2] >= j THEN t[2] + 1 ELSE t[2]
    IN  EdgeKey(tgt_i, tgt_j)

\* new_ops, the operation set handed to the two new Edges (edge_ops is computed but not used)
NewOps(orig) == commons

\* Rewired with the original edge left at (i, j) and edge_a bridging (i, j+1)
RewiredSwapped(i, j, a, b, c) ==
    << [key |-> EdgeKey(i, j), ref |-> c],
       [key |-> EdgeKey(j, j + 1), ref |-> b],
       [key |-> EdgeKey(i, j + 1), ref |-> a] >>

\* the three entries appended after the shifted ones: edge_a, edge_b and the original edge_c
Rewired(i, j, a, b, c) ==
    << [key |-> EdgeKey(i, j), ref |-> a],
       [key |-> EdgeKey(j, j + 1), ref |-> b],
       [key |-> EdgeKey(i, j + 1), ref |-> c] >>

\* NewLineage that starts over from the original's name
NewLineageRestarted(orig) == <<orig.name>>

\* the lineage handed to the two new Edges: the original's lineage and then its name
NewLineage(orig) == Append(orig.lineage, orig.name)

\* NewNames with one call of the counter serving both Edges
NewNamesOneCall(counter) == <<Count(counter), Count(counter)>>

\* the two calls self.edge_counter() that name edge_a and edge_b
NewNames(counter) == <<Count(counter), Count(Count(counter).next)>>

\* SplitReturn with the original Edge in the list as well
SplitReturnWithOriginal(a, b, c) == <<a, b, c>>

\* new_edges = [edge_a, edge_b], the list split_edge returns
SplitReturn(a, b, c) == <<a, b>>

\* Cell.split_edge: the cell and its Edge objects afterwards, and the returned references
split_edge(cell, objs, key) ==
    LET d == decode(key, "->")
        i == d[1]
        j == d[2]
        c == Lookup(cell.edges, key)
        orig == objs[c]
        new_sizes == get_new_op_sizes(cell.op_keys, orig)
        new_ops == NewOps(orig)
        n1 == NewNames(cell.edge_counter)[1]
        n2 == NewNames(cell.edge_counter)[2]
        edge_a == Edge(new_ops, new_sizes[2], n1.value, NewLineage(orig))
        edge_b == Edge(new_ops, new_sizes[1], n2.value, NewLineage(orig))
        a == Len(objs) + 1
        b == Len(objs) + 2
        others == SelectSeq(cell.edges, LAMBDA it : it.key # key)
        shifted_edges ==
            [x \in DOMAIN others |-> [key |-> ShiftKey(others[x].key, j), ref |-> others[x].ref]]
            \o Rewired(i, j, a, b, c)
        objs2 == [Append(Append(objs, edge_a), edge_b) EXCEPT ![c] = reset_growth_factor(orig)]
        cell2 == [cell EXCEPT !.edges = DictFromList(<<>>, shifted_edges),
                              !.edge_counter = n2.next]
    IN  [cell |-> set_op_order(cell2),
         objs |-> objs2,
         new_edges |-> SplitReturn(a, b, c),
         written |-> Keys(shifted_edges)]

\* Cell.__init__
CellInit(chain, cell_idx) ==
    LET dims == CellDims(cell_idx)
        n0 == Count(0)
        e == Edge(commons, dims[1], n0.value, <<>>)
        cell == [name |-> <<chain, cell_idx>>,
                 edge_counter |-> n0.next,
                 op_keys |-> dims,
                 edges |-> <<[key |-> EdgeKey(0, 1), ref |-> 1]>>,
                 output_node |-> 0,
                 forward_iterator |-> <<>>]
    IN  [cell |-> set_op_order(cell), objs |-> <<e>>]

(***************************************************************************)
(* Net                                                                     *)
(***************************************************************************)
Chains == 0..(NumChains - 1)
CellIdxs == 0..Reductions
Positions == Chains \X CellIdxs

\* all_cells(): chain by chain, cell by cell
PosSeq ==
    [k \in 1..(NumChains * (Reductions + 1)) |->
        <<(k - 1) \div (Reductions + 1), (k - 1) % (Reductions + 1)>>]

NoSplit == [pos |-> None]

\* nothing returned yet
NoCall == [op |-> "none", at |-> 0, pos |-> None, arg |-> None, value |-> None]

\* the record of a call made as call number `at`: its receiver, argument and returned value
Returned(op, at, pos, arg, value) ==
    [op |-> op, at |-> at, pos |-> pos, arg |-> arg, value |-> value]

Init ==
    /\ cells = [p \in Positions |-> CellInit(p[1], p[2]).cell]
    /\ heap = [p \in Positions |-> CellInit(p[1], p[2]).objs]
    /\ hypers \in [gpu_space : Budgets, metric : Metrics, sort_dir : SortDirs, epoch : {0}]
    /\ pc = "idle"
    /\ n_arg = 0
    /\ step_i = 0
    /\ mutations = <<>>
    /\ new_edges = <<>>
    /\ mutation_in_chain = {}
    /\ outcome = "none"
    /\ steps = <<>>
    /\ last_split = NoSplit
    /\ calls = 0
    /\ mutate_calls = 0
    /\ ret = NoCall

mutVars == <<pc, n_arg, step_i, mutations, new_edges, mutation_in_chain, outcome, steps,
             mutate_calls>>

\* the record kept of one split_edge call
SplitLog(p, key, r) ==
    [pos |-> p, key |-> key, orig |-> Lookup(cells[p].edges, key),
     new_edges |-> r.new_edges, written |-> r.written]

\* a direct call cell.split_edge(key) on any cell, for any key of its mapping
SplitEdge ==
    /\ pc = "idle"
    /\ calls < MaxCellCalls
    /\ \E p \in Positions : \E x \in DOMAIN cells[p].edges :
          LET key == cells[p].edges[x].key
              r == split_edge(cells[p], heap[p], key)
          IN  /\ cells' = [cells EXCEPT ![p] = r.cell]
              /\ heap' = [heap EXCEPT ![p] = r.objs]
              /\ last_split' = SplitLog(p, key, r)
    /\ calls' = calls + 1
    /\ UNCHANGED <<hypers, mutVars, ret>>

ActiveNames(e) == {e.ops[x].name : x \in {y \in DOMAIN e.ops : ~e.ops[y].zero}}

\* edge.deadhead(prune_interval) on one edge; the gates of some, or none, of the operations
\* that are still active report removal
DeadheadEdge(bound) ==
    /\ pc = "idle"
    /\ calls < bound
    /\ \E p \in Positions : \E o \in DOMAIN heap[p] :
         \E removed \in SUBSET ActiveNames(heap[p][o]) :
          /\ heap' = [heap EXCEPT ![p][o] = EdgeDeadhead(@, removed)]
          /\ ret' = Returned("deadhead", calls + 1, p, <<o>>, <<dhs(heap[p][o], removed)>>)
    /\ calls' = calls + 1
    /\ UNCHANGED <<cells, hypers, mutVars, last_split>>

CellDeadhead == DeadheadEdge(MaxCellCalls)

\* a direct call cell.set_op_order() on a cell whose structure did not change
SetOpOrder ==
    /\ pc = "idle"
    /\ calls < MaxCellCalls
    /\ \E p \in Positions :
          /\ cells' = [cells EXCEPT ![p] = set_op_order(@)]
          /\ ret' = Returned("set_op_order", calls + 1, p, None, None)
    /\ calls' = calls + 1
    /\ UNCHANGED <<heap, hypers, mutVars, last_split>>

\* Edge.forward: the path the input takes
EdgeForward(e, omit_this_edge) ==
    IF ~omit_this_edge
    THEN IF e.num_ops # 0 THEN "norm" ELSE "zero"
    ELSE "shap_identity"

\* shap.get(edge, 1.): the mask value of a key, 1 when the key is not in the mask
ShapGet(shap, edge) ==
    IF \E x \in DOMAIN shap : shap[x].key = edge
    THEN shap[CHOOSE x \in DOMAIN shap : shap[x].key = edge].mask
    ELSE 1

\* Omitted with the test on 1. in place of 0.
OmittedWhenOne(mask) == mask = 1

\* omit_this_edge = True if shap.get(edge, 1.) == 0. else False
Omitted(mask) == mask = 0

\* the value of a node is the set of contributions summed into it; this one is the input x
InputX == EdgeKey(-1, 0)

\* one iteration of the loop of Cell.forward over forward_iterator[k]
ForwardStep(cell, objs, shap, node_storage, k) ==
    LET it == cell.forward_iterator[k]
        omit_this_edge == Omitted(ShapGet(shap, it.edge))
        read == IF it.i \in DOMAIN node_storage THEN node_storage[it.i] ELSE None
        out == <<{it.edge}>>
        summed == IF it.j \in DOMAIN node_storage /\ node_storage[it.j] # None
                  THEN <<node_storage[it.j][1] \cup out[1]>>
                  ELSE out
        written == [n \in (DOMAIN node_storage) \cup {it.j} |->
                       IF n = it.j THEN summed ELSE node_storage[n]]
    IN  [storage |-> IF it.last THEN [n \in (DOMAIN written) \ {it.i} |-> written[n]]
                     ELSE written,
         visit |-> [edge |-> it.edge, i |-> it.i, j |-> it.j, last |-> it.last,
                    read |-> read,
                    omit |-> omit_this_edge,
                    path |-> EdgeForward(objs[Lookup(cell.edges, it.edge)], omit_this_edge)]]

\* Cell.forward from entry k on: the visits made, a missing read ends the walk (KeyError)
RECURSIVE ForwardWalk(_, _, _, _, _, _)
ForwardWalk(cell, objs, shap, node_storage, k, visits) ==
    IF k > Len(cell.forward_iterator)
    THEN [visits |-> visits,
          raised |-> cell.output_node \notin DOMAIN node_storage,
          value |-> IF cell.output_node \in DOMAIN node_storage
                    THEN node_storage[cell.output_node] ELSE None]
    ELSE LET st == ForwardStep(cell, objs, shap, node_storage, k)
         IN  IF st.visit.read = None
             THEN [visits |-> Append(visits, st.visit), raised |-> TRUE, value |-> None]
             ELSE ForwardWalk(cell, objs, shap, st.storage, k + 1, Append(visits, st.visit))

\* Cell.forward(x, drop_prob, shap)
forward(cell, objs, shap) ==
    ForwardWalk(cell, objs, shap, [n \in {0} |-> <<{InputX}>>], 1, <<>>)

\* a call cell(x, drop_prob) on one cell
CellForward ==
    /\ pc = "idle"
    /\ calls < MaxCellCalls
    /\ \E p \in Positions :
          ret' = Returned("forward", calls + 1, p, None, forward(cells[p], heap[p], <<>>))
    /\ calls' = calls + 1
    /\ UNCHANGED <<cells, heap, hypers, mutVars, last_split>>

CellNext == SplitEdge \/ CellDeadhead \/ SetOpOrder \/ CellForward

CellInitState ==
    /\ Init
    /\ hypers = [gpu_space |-> 3, metric |-> "mean_weight", sort_dir |-> "max", epoch |-> 0]

CellSpec == CellInitState /\ [][CellNext]_vars

(***************************************************************************)
(* Net: growth statistics                                                  *)
(***************************************************************************)
all_none(samples) == \A x \in DOMAIN samples : samples[x] = None

\* np.mean of a sample list, as the fraction <<sum, count>>
mean(samples) == <<SumSeq([x \in DOMAIN samples |-> samples[x][1]]), Len(samples)>>

NullGrowth == [mean_weight |-> None, mean_grad |-> None, shap |-> None]

\* np.mean / np.std over a list that holds None beside numbers raises TypeError
TypeError == [mean_weight |-> <<"TypeError">>, mean_grad |-> <<"TypeError">>, shap |-> None]

some_none(samples) == \E x \in DOMAIN samples : samples[x] = None

\* NullCase with the two all-None tests joined by `and`
NullCaseBothNone(growth_factor) ==
    Len(growth_factor.weight) = 0
    \/ (all_none(growth_factor.grad) /\ all_none(growth_factor.weight))

\* the condition under which get_growth returns the all-null record
NullCase(growth_factor) ==
    Len(growth_factor.weight) = 0
    \/ all_none(growth_factor.grad) \/ all_none(growth_factor.weight)

\* get_growth that reports the Edge's shap value in the all-null case too
get_growth_with_shap(e) ==
    IF NullCase(e.growth_factor)
    THEN [NullGrowth EXCEPT !.shap = e.shap]
    ELSE IF some_none(e.growth_factor.weight) \/ some_none(e.growth_factor.grad)
         THEN TypeError
         ELSE [mean_weight |-> mean(e.growth_factor.weight),
               mean_grad |-> mean(e.growth_factor.grad),
               shap |-> e.shap]

\* Edge.get_growth (of the eight statistics, the two means; and 'shap')
get_growth(e) ==
    IF NullCase(e.growth_factor)
    THEN NullGrowth
    ELSE IF some_none(e.growth_factor.weight) \/ some_none(e.growth_factor.grad)
         THEN TypeError
         ELSE [mean_weight |-> mean(e.growth_factor.weight),
               mean_grad |-> mean(e.growth_factor.grad),
               shap |-> e.shap]

\* the references a cell's mapping holds, in mapping order
Refs(cell) == [x \in DOMAIN cell.edges |-> cell.edges[x].ref]

\* Net.compile_growth_factors for one edge: one sample per active operation
CompileEdge(e, gf) ==
    LET active == SelectSeq(e.ops, LAMBDA op : ~op.zero)
    IN  [e EXCEPT !.growth_factor =
            [weight |-> e.growth_factor.weight \o [x \in DOMAIN active |-> gf.weight],
             grad |-> e.growth_factor.grad \o [x \in DOMAIN active |-> gf.grad]]]

\* the Edge objects of the network, as <<position, reference>>
EdgeSet == UNION {{<<p, o>> : o \in Range(Refs(cells[p]))} : p \in Positions}

\* Net.compile_growth_factors; the active operations of edge po report gfs[po]
CompileGrowthFactors ==
    /\ pc = "idle"
    /\ calls < MaxNetCalls
    /\ \E gfs \in [EdgeSet -> GrowthReports] :
          heap' = [p \in Positions |->
                     [o \in DOMAIN heap[p] |->
                        IF <<p, o>> \in EdgeSet THEN CompileEdge(heap[p][o], gfs[<<p, o>>])
                        ELSE heap[p][o]]]
    /\ calls' = calls + 1
    /\ UNCHANGED <<cells, hypers, mutVars, last_split, ret>>

NetDeadhead == DeadheadEdge(MaxNetCalls)

\* clear_grad that resets only the Edges the call created
clear_grad_new_only ==
    [p \in Positions |->
        [o \in DOMAIN heap[p] |->
            IF <<p, o>> \in Range(new_edges) THEN reset_growth_factor(heap[p][o])
            ELSE heap[p][o]]]

\* Net.clear_grad
clear_grad ==
    [p \in Positions |->
        [o \in DOMAIN heap[p] |->
            IF <<p, o>> \in EdgeSet THEN reset_growth_factor(heap[p][o]) ELSE heap[p][o]]]

\* what an operation may report besides: no gradient yet, or nothing at all
NullReports == {[weight |-> <<1>>, grad |-> None], [weight |-> None, grad |-> None]}

\* Net.compile_growth_factors with every active operation of the network reporting gf
CompileReports ==
    /\ pc = "idle"
    /\ calls < MaxCellCalls
    /\ \E gf \in GrowthReports \cup NullReports :
          heap' = [p \in Positions |->
                     [o \in DOMAIN heap[p] |->
                        IF <<p, o>> \in EdgeSet THEN CompileEdge(heap[p][o], gf)
                        ELSE heap[p][o]]]
    /\ calls' = calls + 1
    /\ UNCHANGED <<cells, hypers, mutVars, last_split, ret>>

\* a direct call net.clear_grad()
ClearGrad ==
    /\ pc = "idle"
    /\ calls < MaxCellCalls
    /\ heap' = clear_grad
    /\ calls' = calls + 1
    /\ UNCHANGED <<cells, hypers, mutVars, last_split, ret>>

GrowthNext == SplitEdge \/ CellDeadhead \/ CompileReports \/ ClearGrad

GrowthSpec == CellInitState /\ [][GrowthNext]_vars

(***************************************************************************)
(* Net: SHAP valuation                                                     *)
(***************************************************************************)
\* Net.get_n_edges
get_n_edges == SumSeq([k \in DOMAIN PosSeq |-> Len(cells[PosSeq[k]].edges)])

\* np.zeros((1, n_edges))[0], the baseline row handed to the explainer
activation_vectors_train(n_edges) == [k \in 1..n_edges |-> 0]

\* np.ones((1, n_edges))[0], the row handed to explainer.shap_values
activation_vectors_test(n_edges) == [k \in 1..n_edges |-> 1]

\* the rows the explainer scores: the two above and coalitions with a single 1
MaskRows(n_edges) ==
    {activation_vectors_train(n_edges), activation_vectors_test(n_edges)}
    \cup {[k \in 1..n_edges |-> IF k = m THEN 1 ELSE 0] : m \in 1..n_edges}

\* idx when the loop of shap_forward reaches the cell PosSeq[k]
IdxBefore(k) == SumSeq([m \in 1..(k - 1) |-> Len(cells[PosSeq[m]].edges)])

\* model_activation[(chain, cell_idx)] for the cell PosSeq[k]
model_activation(activation_vector, k) ==
    LET edges == cells[PosSeq[k]].edges
    IN  [x \in DOMAIN edges |->
            [key |-> edges[x].key, mask |-> activation_vector[IdxBefore(k) + x]]]

\* Net.shap_forward for one row: the pass each cell makes under the row's mask
shap_forward(activation_vector) ==
    [k \in DOMAIN PosSeq |->
        forward(cells[PosSeq[k]], heap[PosSeq[k]], model_activation(activation_vector, k))]

\* the explainer scoring one row with shap_forward
ShapForward ==
    /\ pc = "idle"
    /\ calls < MaxNetCalls
    /\ \E row \in MaskRows(get_n_edges) :
          ret' = Returned("shap_forward", calls + 1, None, row, shap_forward(row))
    /\ calls' = calls + 1
    /\ UNCHANGED <<cells, heap, hypers, mutVars, last_split>>

(***************************************************************************)
(* Net.mutate                                                              *)
(***************************************************************************)
\* Net.get_growth_factors for one cell: (chain_cell, key) -> growth record, in order
CellFactors(p) ==
    [x \in DOMAIN cells[p].edges |->
        [cc |-> encode(p[1], p[2], ","),
         key |-> cells[p].edges[x].key,
         v |-> get_growth(heap[p][cells[p].edges[x].ref])]]

\* Net.get_growth_factors
get_growth_factors == Flatten([k \in DOMAIN PosSeq |-> CellFactors(PosSeq[k])])

\* the configured metric of one snapshot entry
MetricOf(entry) == entry.v[hypers.metric]

\* comparison of two means <<sum, count>>
Less(a, b) == a[1] * b[2] < b[1] * a[2]

\* whether y, already placed, stays in front of x in a stable sort
StaysBefore(y, x, reverse) ==
    IF reverse THEN ~Less(MetricOf(y), MetricOf(x)) ELSE ~Less(MetricOf(x), MetricOf(y))

\* stable insertion of x into the sorted list acc
Insert(acc, x, reverse) ==
    LET front == {k \in 0..Len(acc) : \A y \in 1..k : StaysBefore(acc[y], x, reverse)}
        k == MaxOf(front)
    IN  SubSeq(acc, 1, k) \o <<x>> \o SubSeq(acc, k + 1, Len(acc))

\* sorted(nonnull_growth_factors, key=lambda x: x[1], reverse=...)
RECURSIVE sorted(_, _, _)
sorted(acc, items, reverse) ==
    IF items = <<>> THEN acc
    ELSE sorted(Insert(acc, Head(items), reverse), Tail(items), reverse)

\* RankedEdges with reverse taken from sort_dir == 'min'
RankedEdgesReversed(factors) ==
    sorted(<<>>, SelectSeq(factors, LAMBDA f : MetricOf(f) # None), hypers.sort_dir = "min")
    \o SelectSeq(factors, LAMBDA f : MetricOf(f) = None)

\* the candidate list of the ranked branch: non-null by metric, then the null ones
RankedEdges(factors) ==
    sorted(<<>>, SelectSeq(factors, LAMBDA f : MetricOf(f) # None), hypers.sort_dir = "max")
    \o SelectSeq(factors, LAMBDA f : MetricOf(f) = None)

\* RandomEdges without the filter on mutation_in_chain
RandomEdgesUnfiltered(factors, used) == factors

\* the candidate list of the random branch
RandomEdges(factors, used) == SelectSeq(factors, LAMBDA f : f.cc \notin used)

\* UsedAfter without the add
UsedAfterUnchanged(used, sel) == used

\* what the random branch adds to mutation_in_chain for the chosen candidate
UsedAfter(used, sel) == used \cup {sel.cc}

\* Net.update_mut_sizes, one entry: 2 * size / 1024, kept here as the numerator 2 * size
mut_sizes(p, key) == 2 * get_edge_size(heap[p][Lookup(cells[p].edges, key)])

\* Accepts without the overfill test
AcceptsIgnoringOverfill(size, overfill, mut_size_x1024, gpu_space) ==
    1024 * size + mut_size_x1024 < 1024 * gpu_space

\* Accepts with <= in place of <
AcceptsInclusive(size, overfill, mut_size_x1024, gpu_space) ==
    ~overfill /\ 1024 * size + mut_size_x1024 <= 1024 * gpu_space

\* the budget gate: not overfill and (size + mut_size) < self.gpu_space
Accepts(size, overfill, mut_size_x1024, gpu_space) ==
    ~overfill /\ 1024 * size + mut_size_x1024 < 1024 * gpu_space

\* IfAccepted with the branch taken whatever the gate says
IfAcceptedOrNot(ok, before, after) == after

\* the `if` of the budget gate: the value a variable has after its branch, or as before
IfAccepted(ok, before, after) == IF ok THEN after ELSE before

\* the rest of one loop iteration once the candidate sel is chosen
GateAndSplit(sel, mode, used, factors) ==
    \E size \in Sizes, overfill \in BOOLEAN :
        LET d == decode(sel.cc, ",")
            p == <<d[1], d[2]>>
            mut_size == mut_sizes(p, sel.key)
            ok == Accepts(size, overfill, mut_size, hypers.gpu_space)
            r == split_edge(cells[p], heap[p], sel.key)
            again == Lookup(r.cell.edges, sel.key)
            log == [mode |-> mode, cc |-> sel.cc, key |-> sel.key,
                    ref |-> Lookup(cells[p].edges, sel.key),
                    size |-> size, overfill |-> overfill, mut_size |-> mut_size,
                    applied |-> ok, used |-> mutation_in_chain,
                    metrics |-> [x \in DOMAIN factors |-> MetricOf(factors[x])]]
        IN  /\ cells' = IfAccepted(ok, cells, [cells EXCEPT ![p] = r.cell])
            /\ heap' = IfAccepted(ok, heap,
                                   [heap EXCEPT ![p] =
                                       [r.objs EXCEPT ![again] = reset_growth_factor(@)]])
            /\ new_edges' = IfAccepted(ok, new_edges,
                                        new_edges
                                        \o [x \in DOMAIN r.new_edges |-> <<p, r.new_edges[x]>>])
            /\ mutations' = IfAccepted(ok, mutations, Append(mutations, <<sel.cc, sel.key>>))
            /\ last_split' = IfAccepted(ok, last_split, SplitLog(p, sel.key, r))
            /\ mutation_in_chain' = used
            /\ steps' = Append(steps, log)
            /\ step_i' = step_i + 1
            /\ UNCHANGED <<pc, outcome>>

\* the attributions the explainer returns, each value v kept as the fraction <<v, 1>>
ShapValues == {<<1, 1>>, <<2, 1>>}

\* Net.compute_shap_values: the write-back of shap_values[idx] onto the Edges
compute_shap_values(shap_values) ==
    [p \in Positions |->
        [o \in DOMAIN heap[p] |->
            LET k == CHOOSE m \in DOMAIN PosSeq : PosSeq[m] = p
                at == {x \in DOMAIN cells[p].edges : cells[p].edges[x].ref = o}
            IN  IF at = {} THEN heap[p][o]
                ELSE [heap[p][o] EXCEPT !.shap = shap_values[IdxBefore(k) + MaxOf(at)]]]]

\* mutate(n): entry, with the SHAP refresh when the net is past its first epoch
\* (`if self.epoch > 0`); in Spec and CellSpec the net is at epoch 0.
MutateCall ==
    /\ pc = "idle"
    /\ calls < MaxNetCalls
    /\ mutate_calls < MaxMutateCalls
    /\ mutate_calls' = mutate_calls + 1
    /\ \E n \in 0..MaxN : n_arg' = n
    /\ pc' = "loop"
    /\ step_i' = 0
    /\ mutations' = <<>>
    /\ new_edges' = <<>>
    /\ mutation_in_chain' = {}
    /\ steps' = <<>>
    /\ outcome' = "none"
    /\ calls' = calls + 1
    /\ IF hypers.epoch > 0
       THEN \E shap_values \in [1..get_n_edges -> ShapValues] :
               heap' = compute_shap_values(shap_values)
       ELSE heap' = heap
    /\ UNCHANGED <<cells, hypers, last_split, ret>>

\* mutate(n): one iteration of the loop
MutateStep ==
    /\ pc = "loop"
    /\ step_i < n_arg
    /\ LET factors == get_growth_factors
       IN  IF \A x \in DOMAIN factors : MetricOf(factors[x]) = None
           THEN LET edges == RandomEdges(factors, mutation_in_chain)
                IN  IF edges = <<>>
                    THEN \* np.random.choice on an empty range raises ValueError
                         /\ pc' = "idle"
                         /\ outcome' = "raised"
                         /\ UNCHANGED <<cells, heap, n_arg, step_i, mutations, new_edges,
                                        mutation_in_chain, steps, last_split>>
                    ELSE /\ \E loc \in DOMAIN edges :
                              GateAndSplit(edges[loc], "random",
                                           UsedAfter(mutation_in_chain, edges[loc]), factors)
                         /\ UNCHANGED n_arg
           ELSE /\ GateAndSplit(RankedEdges(factors)[1], "ranked", mutation_in_chain, factors)
                /\ UNCHANGED n_arg
    /\ UNCHANGED <<hypers, calls, mutate_calls, ret>>

\* ClearNeeded that holds after every scan
ClearAlways == TRUE

\* if len(new_edges): whether mutate clears the growth samples before it returns
ClearNeeded == Len(new_edges) # 0

\* mutate(n): after the loop
MutateReturn ==
    /\ pc = "loop"
    /\ step_i = n_arg
    /\ heap' = IF ClearNeeded THEN clear_grad ELSE heap
    /\ pc' = "idle"
    /\ outcome' = "returned"
    /\ UNCHANGED <<cells, hypers, n_arg, step_i, mutations, new_edges, mutation_in_chain,
                   steps, last_split, calls, mutate_calls, ret>>

Next ==
    \/ CompileGrowthFactors
    \/ NetDeadhead
    \/ ShapForward
    \/ MutateCall
    \/ MutateStep
    \/ MutateReturn

Spec == Init /\ [][Next]_vars

\* the net with the 'shap' metric configured, before and after its first epoch
ShapInit ==
    /\ cells = [p \in Positions |-> CellInit(p[1], p[2]).cell]
    /\ heap = [p \in Positions |-> CellInit(p[1], p[2]).objs]
    /\ hypers \in [gpu_space : Budgets, metric : {"shap"}, sort_dir : SortDirs, epoch : {0, 1}]
    /\ pc = "idle"
    /\ n_arg = 0
    /\ step_i = 0
    /\ mutations = <<>>
    /\ new_edges = <<>>
    /\ mutation_in_chain = {}
    /\ outcome = "none"
    /\ steps = <<>>
    /\ last_split = NoSplit
    /\ calls = 0
    /\ mutate_calls = 0
    /\ ret = NoCall

ShapNext == CompileGrowthFactors \/ MutateCall \/ MutateStep \/ MutateReturn

ShapSpec == ShapInit /\ [][ShapNext]_vars

(***************************************************************************)
(* Properties of Cell.split_edge and Cell.set_op_order                     *)
(***************************************************************************)
\* a step that applied split_edge (nothing else changes a cell), and where
SplitApplied == cells' # cells
SplitPos == last_split'.pos
SplitI == decode(last_split'.key, "->")[1]
SplitJ == decode(last_split'.key, "->")[2]

NoDuplicates(seq) == \A x, y \in DOMAIN seq : seq[x] = seq[y] => x = y

KeySet(cell) == Range(Keys(cell.edges))

\* C1: split_edge((i,j)) raises output_node (the node count) by exactly 1 and the number
\* of entries of the edge mapping by exactly 2, and the keys written when the mapping is
\* rebuilt are pairwise different.
C1_SplitCounts ==
    [][SplitApplied =>
          /\ cells'[SplitPos].output_node = cells[SplitPos].output_node + 1
          /\ Len(cells'[SplitPos].edges) = Len(cells[SplitPos].edges) + 2
          /\ NoDuplicates(last_split'.written)
          /\ Len(last_split'.written) = Len(cells[SplitPos].edges) + 2]_vars

\* C1 witness: a split was applied to a cell that already had three edges to renumber
C1_Witness ==
    /\ last_split # NoSplit
    /\ Len(cells[last_split.pos].edges) >= 5

\* the key the claim gives an edge that was at key k before split_edge((i,j))
ClaimedKey(k, j) ==
    EdgeKey(IF k[1] >= j THEN k[1] + 1 ELSE k[1], IF k[3] >= j THEN k[3] + 1 ELSE k[3])

\* C2: after split_edge((i,j)) the original Edge instance is at (i,j+1), (i,j) and (j,j+1)
\* hold two freshly constructed instances, every other instance is still in the mapping
\* under its key with each endpoint >= j raised by 1; the initial cell {0->1} becomes
\* exactly {0->1, 1->2, 0->2} with 0->2 the original instance.
C2_SplitRewiring ==
    [][SplitApplied =>
          LET p == SplitPos
              i == SplitI
              j == SplitJ
              old == cells[p].edges
              new == cells'[p].edges
              c == Lookup(old, last_split'.key)
              fresh == (DOMAIN heap'[p]) \ (DOMAIN heap[p])
          IN  /\ HasKey(new, EdgeKey(i, j + 1)) /\ Lookup(new, EdgeKey(i, j + 1)) = c
              /\ HasKey(new, EdgeKey(i, j)) /\ Lookup(new, EdgeKey(i, j)) \in fresh
              /\ HasKey(new, EdgeKey(j, j + 1)) /\ Lookup(new, EdgeKey(j, j + 1)) \in fresh
              /\ Lookup(new, EdgeKey(i, j)) # Lookup(new, EdgeKey(j, j + 1))
              /\ \A x \in DOMAIN old :
                    old[x].key # last_split'.key =>
                       /\ HasKey(new, ClaimedKey(old[x].key, j))
                       /\ Lookup(new, ClaimedKey(old[x].key, j)) = old[x].ref
              /\ Keys(old) = <<EdgeKey(0, 1)>> =>
                       /\ KeySet(cells'[p]) = {EdgeKey(0, 1), EdgeKey(1, 2), EdgeKey(0, 2)}
                       /\ Len(new) = 3
                       /\ Lookup(new, EdgeKey(0, 2)) = 1]_vars

\* C2 witness: a split of an edge i->j with an edge that ends before j, which keeps its
\* key, and an edge that starts at the old node j, which has both endpoints raised
C2_Witness ==
    /\ last_split # NoSplit
    /\ LET j == decode(last_split.key, "->")[2]
           keys == KeySet(cells[last_split.pos])
       IN  /\ \E k \in keys : k[3] < j
           /\ \E k \in keys : k[1] >= j + 1

NodesOfKeys(cell) == {k[1] : k \in KeySet(cell)} \cup {k[3] : k \in KeySet(cell)}

NodesOfOrder(cell) ==
    {cell.forward_iterator[x].i : x \in DOMAIN cell.forward_iterator}
    \cup {cell.forward_iterator[x].j : x \in DOMAIN cell.forward_iterator}

\* C3: in every cell every edge key (i,j) has i < j, the node ids of the keys and of the
\* forward order are exactly 0..output_node, and output_node is the largest j of any key.
C3_NodeRange ==
    \A p \in Positions :
        /\ \A k \in KeySet(cells[p]) : k[1] < k[3]
        /\ NodesOfKeys(cells[p]) = 0..cells[p].output_node
        /\ NodesOfOrder(cells[p]) = 0..cells[p].output_node
        /\ cells[p].output_node = MaxOf({k[3] : k \in KeySet(cells[p])})

\* C3 witness: a cell that was split three times
C3_Witness == \E p \in Positions : cells[p].output_node = 4 /\ Len(cells[p].edges) = 7

\* C4: node 0 is the only node without an incoming edge and output_node the only node
\* without an outgoing edge.
C4_SourceAndSink ==
    \A p \in Positions :
        LET keys == KeySet(cells[p])
            out == cells[p].output_node
        IN  /\ \A k \in 1..out : \E e \in keys : e[3] = k
            /\ \A k \in 0..(out - 1) : \E e \in keys : e[1] = k
            /\ ~\E e \in keys : e[3] = 0
            /\ ~\E e \in keys : e[1] = out

\* C4 witness: a split of an edge whose destination had outgoing edges of its own
C4_Witness ==
    /\ last_split # NoSplit
    /\ decode(last_split.key, "->")[2] + 1 < cells[last_split.pos].output_node

\* C5: the two Edges built by split_edge((i,j)) have exactly the operation kinds still
\* active on the original edge at the time of the split, and its current num_ops.
C5_NewEdgesRestricted ==
    [][SplitApplied =>
          LET p == SplitPos
              orig == heap[p][Lookup(cells[p].edges, last_split'.key)]
          IN  \A x \in DOMAIN last_split'.new_edges :
                 LET e == heap'[p][last_split'.new_edges[x]]
                 IN  /\ ActiveNames(e) = ActiveNames(orig)
                     /\ e.num_ops = orig.num_ops]_vars

(***************************************************************************)
(* Properties of Net.mutate                                                *)
(***************************************************************************)
\* a step that ran one iteration of mutate's loop through the budget gate, and its record
StepTaken == pc = "loop" /\ step_i' = step_i + 1
ThisStep == steps'[Len(steps')]

\* size + mut_size compared with gpu_space, mut_size being mut_size_x1024 / 1024
Exceeds(st) == 1024 * st.size + st.mut_size > 1024 * hypers.gpu_space
Reaches(st) == 1024 * st.size + st.mut_size = 1024 * hypers.gpu_space

NothingApplied ==
    /\ cells' = cells /\ heap' = heap
    /\ mutations' = mutations /\ new_edges' = new_edges

\* C6: no step of mutate applies split_edge when the probe reports overfill or when
\* size + mut_size exceeds gpu_space; and a call whose candidates all have a mut_size
\* above gpu_space returns no mutation and no new edge, whatever n.
C6_BudgetNeverExceeded ==
    /\ [][StepTaken /\ (ThisStep.overfill \/ Exceeds(ThisStep)) => NothingApplied]_vars
    /\ [](outcome = "returned"
            /\ (\A k \in DOMAIN steps : steps[k].mut_size > 1024 * hypers.gpu_space)
          => mutations = <<>> /\ new_edges = <<>>)

\* C6 witness: mutate(n), n >= 2, returned nothing, every step rejected only for its
\* mut_size being above the budget
C6_Witness ==
    /\ outcome = "returned" /\ n_arg >= 2 /\ Len(steps) = n_arg
    /\ \A k \in DOMAIN steps :
          ~steps[k].overfill /\ steps[k].size = 0 /\ steps[k].mut_size > 1024 * hypers.gpu_space
    /\ mutations = <<>> /\ new_edges = <<>>

\* C7 as stated: a step is skipped if overfill or size + mut_size exceeds gpu_space and
\* the split is applied otherwise, that is whenever overfill is false and
\* size + mut_size <= gpu_space.
C7_AcceptedUpToBudget ==
    [][StepTaken =>
          (SplitApplied <=> ~ThisStep.overfill /\ ~Exceeds(ThisStep))]_vars

\* C7 amended: the split is applied exactly when overfill is false and size + mut_size
\* is below gpu_space; a candidate that reaches the budget exactly is skipped.
C7_AcceptedBelowBudget ==
    [][StepTaken =>
          (SplitApplied <=>
              ~ThisStep.overfill /\ ~Exceeds(ThisStep) /\ ~Reaches(ThisStep))]_vars

\* C7 witness: in one call a candidate that reaches the budget exactly was skipped and
\* a candidate below it was split
C7_Witness ==
    /\ \E k \in DOMAIN steps :
          ~steps[k].overfill /\ Reaches(steps[k]) /\ ~steps[k].applied
    /\ \E k \in DOMAIN steps :
          ~steps[k].overfill /\ ~Reaches(steps[k]) /\ ~Exceeds(steps[k]) /\ steps[k].applied

\* a <= b for two means <<sum, count>>
MeanLeq(a, b) == a[1] * b[2] <= b[1] * a[2]

\* C8: in a step whose snapshot has a non-null value of the configured metric, the
\* selected edge has a non-null value, the largest of the non-null ones when sort_dir is
\* 'max' and the smallest otherwise.
C8_RankedSelection ==
    [][StepTaken =>
          LET snap == get_growth_factors
              nonnull == {x \in DOMAIN snap : MetricOf(snap[x]) # None}
          IN  nonnull # {} =>
                \E x \in nonnull :
                    /\ snap[x].cc = ThisStep.cc /\ snap[x].key = ThisStep.key
                    /\ \A y \in nonnull :
                          IF hypers.sort_dir = "max"
                          THEN MeanLeq(MetricOf(snap[y]), MetricOf(snap[x]))
                          ELSE MeanLeq(MetricOf(snap[x]), MetricOf(snap[y]))]_vars

\* C8 witness: a call whose first step ranked two different non-null values and took the
\* one listed second, and whose second step took a non-null edge listed after null ones
C8_Witness ==
    /\ Len(steps) >= 2
    /\ steps[1].mode = "ranked" /\ steps[2].mode = "ranked"
    /\ steps[1].metrics[1] # None /\ steps[1].metrics[2] # None
    /\ steps[1].metrics[1] # steps[1].metrics[2]
    /\ steps[1].cc = encode(0, 1, ",") /\ steps[1].applied
    /\ steps[2].cc = encode(0, 0, ",")
    /\ \E x \in DOMAIN steps[2].metrics : steps[2].metrics[x] = None

ChainOf(cc) == decode(cc, ",")[1]

\* C9: a random-fallback step never selects an edge in a chain in which an earlier step
\* of the same call applied a split, and a chain is excluded only because a split was
\* applied in it.
C9_UnmutatedChainsOnly ==
    /\ \A k, l \in DOMAIN steps :
          k < l /\ steps[l].mode = "random" /\ steps[k].applied
             => ChainOf(steps[l].cc) # ChainOf(steps[k].cc)
    /\ \A cc \in mutation_in_chain :
          \E k \in DOMAIN steps : steps[k].applied /\ ChainOf(steps[k].cc) = ChainOf(cc)

SameCandidate(a, b) == a.cc = b.cc /\ a.key = b.key /\ a.ref = b.ref

\* C10 as stated: once a candidate edge was rejected by the budget gate, no later step of
\* the same call selects and gate-checks that edge again under the same probe reading,
\* in either selection mode.
C10_RejectedNeverReselected ==
    \A k, l \in DOMAIN steps :
        k < l /\ ~steps[k].applied
           => ~(/\ SameCandidate(steps[k], steps[l])
                /\ steps[l].size = steps[k].size /\ steps[l].overfill = steps[k].overfill)

\* C10 amended: in the random-fallback mode no later step of the call selects an edge of
\* the rejected candidate's cell again; in the ranked mode the step after a rejected
\* step selects the same edge again.
C10_RejectedReselectedOnlyWhenRanked ==
    /\ \A k, l \in DOMAIN steps :
          k < l /\ ~steps[k].applied /\ steps[k].mode = "random"
             => steps[l].cc # steps[k].cc
    /\ \A k \in DOMAIN steps :
          k < Len(steps) /\ ~steps[k].applied /\ steps[k].mode = "ranked"
             => steps[k + 1].mode = "ranked" /\ SameCandidate(steps[k], steps[k + 1])

\* C10 witness: a call in which a rejected random-fallback step was followed by another
\* random-fallback step
C10_Witness ==
    \E k, l \in DOMAIN steps :
        k < l /\ ~steps[k].applied /\ steps[k].mode = "random" /\ steps[l].mode = "random"

(***************************************************************************)
(* Properties of the growth samples                                        *)
(***************************************************************************)
NoSamples(e) == e.growth_factor.weight = <<>> /\ e.growth_factor.grad = <<>>

AllEdgesEmpty(h) == \A p \in Positions : \A o \in DOMAIN h[p] : NoSamples(h[p][o])

\* the step in which a mutate(n) call returns
MutateReturns == pc = "loop" /\ pc' = "idle" /\ outcome' = "returned"

\* C11 as stated: when any mutate(n) call returns, whether it applied splits or none,
\* every edge of every cell has empty weight and grad sample lists.
C11_ClearedAfterEveryScan ==
    [][MutateReturns => AllEdgesEmpty(heap')]_vars

\* C11 amended: when a mutate(n) call returns having applied at least one split, every
\* edge has empty sample lists; when it applied none, the samples are left as they were.
C11_ClearedOnlyAfterASplit ==
    [][MutateReturns =>
          IF mutations # <<>> THEN AllEdgesEmpty(heap') ELSE heap' = heap]_vars

\* C11 witness: a call that ran at least one step returned without a split and the
\* samples compiled before it are still there
C11_Witness ==
    /\ pc = "idle" /\ outcome = "returned"
    /\ Len(steps) >= 1 /\ mutations = <<>>
    /\ ~AllEdgesEmpty(heap)

\* C12: if a mutate(n) call applied at least one split then on return every edge of
\* every cell has empty samples and get_growth gives the all-null record; and right
\* after any split_edge the reused original Edge and both new Edges have empty samples.
C12_ClearedAfterSplits ==
    /\ [][MutateReturns /\ mutations # <<>> =>
             \A p \in Positions : \A o \in DOMAIN heap'[p] :
                 NoSamples(heap'[p][o]) /\ get_growth(heap'[p][o]) = NullGrowth]_vars
    /\ [][SplitApplied =>
             /\ NoSamples(heap'[SplitPos][last_split'.orig])
             /\ \A x \in DOMAIN last_split'.new_edges :
                   NoSamples(heap'[SplitPos][last_split'.new_edges[x]])]_vars

\* C12 witness: a call whose first step ranked edges that all had samples returned with
\* exactly one split, so that an edge of another cell had its samples until the return
C12_Witness ==
    /\ pc = "idle" /\ outcome = "returned"
    /\ Len(mutations) = 1 /\ steps[1].mode = "ranked" /\ steps[1].applied
    /\ \A x \in DOMAIN steps[1].metrics : steps[1].metrics[x] # None
    /\ \E p \in Positions : Len(cells[p].edges) = 1

(***************************************************************************)
(* Properties of the Edge                                                  *)
(***************************************************************************)
\* C13: the initial edge of a cell has an empty lineage, each of the two Edges built by
\* a split has the parent's lineage followed by the parent's name (one longer than the
\* parent's), and no step changes the lineage of an existing Edge.
C13_LineageAppendOnly ==
    /\ [](\A p \in Positions :
             /\ heap[p][1].lineage = <<>>
             /\ \A o \in DOMAIN heap[p] :
                   o > 1 => \E q \in 1..(o - 1) :
                               /\ heap[p][o].lineage
                                    = Append(heap[p][q].lineage, heap[p][q].name)
                               /\ Len(heap[p][o].lineage) = Len(heap[p][q].lineage) + 1)
    /\ [][\A p \in Positions : \A o \in DOMAIN heap[p] :
             heap'[p][o].lineage = heap[p][o].lineage]_vars
    /\ [][SplitApplied =>
             LET orig == heap[SplitPos][last_split'.orig]
             IN  \A x \in DOMAIN last_split'.new_edges :
                    LET e == heap'[SplitPos][last_split'.new_edges[x]]
                    IN  /\ e.lineage = Append(orig.lineage, orig.name)
                        /\ Len(e.lineage) = Len(orig.lineage) + 1]_vars

\* C13 witness: an Edge produced by two splits, its parent being itself a split product
C13_Witness ==
    \E p \in Positions : \E o \in DOMAIN heap[p] : Len(heap[p][o].lineage) >= 2

\* the step in which the call recorded in ret' returns
JustReturned(op) == calls' # calls /\ ret'.at = calls' /\ ret'.op = op

Dormant(e) == e.num_ops = 0

\* C14: per Edge num_ops never grows and is never negative; an Edge with num_ops 0 has
\* no normalization and has the zero path, its forward takes the zero path, it stays so
\* for good, and a further deadhead call on it returns 0.
C14_DormantForever ==
    /\ [][\A p \in Positions : \A o \in DOMAIN heap[p] :
             /\ heap'[p][o].num_ops <= heap[p][o].num_ops
             /\ heap'[p][o].num_ops >= 0
             /\ Dormant(heap[p][o]) => Dormant(heap'[p][o])]_vars
    /\ [](\A p \in Positions : \A o \in DOMAIN heap[p] :
             Dormant(heap[p][o]) =>
                /\ ~heap[p][o].norm /\ heap[p][o].zero
                /\ ActiveNames(heap[p][o]) = {}
                /\ EdgeForward(heap[p][o], FALSE) = "zero")
    /\ [][JustReturned("deadhead") /\ Dormant(heap[ret'.pos][ret'.arg[1]])
             => ret'.value = <<0>>]_vars
    /\ [][JustReturned("forward") =>
             \A x \in DOMAIN ret'.value.visits :
                LET v == ret'.value.visits[x]
                    e == heap[ret'.pos][Lookup(cells[ret'.pos].edges, v.edge)]
                IN  Dormant(e) => v.path = "zero"]_vars

\* C14 witness: deadhead was called on an Edge that was already dormant and returned 0
C14_Witness ==
    /\ ret.op = "deadhead" /\ ret.at = calls
    /\ ret.value = <<0>>
    /\ Dormant(heap[ret.pos][ret.arg[1]])

\* a growth record with statistics in it
Computed(r) == r # TypeError /\ r.mean_weight # None /\ r.mean_grad # None

HasNumber(samples) == \E x \in DOMAIN samples : samples[x] # None

\* C15 as stated: get_growth returns the all-null record exactly when no samples were
\* recorded since the last reset: with empty lists the record is all null, and with at
\* least one sample appended, whatever its value, the statistics are non-null.
C15_NullExactlyWhenNoSamples ==
    \A p \in Positions : \A o \in DOMAIN heap[p] :
        LET e == heap[p][o]
        IN  /\ NoSamples(e) => get_growth(e) = NullGrowth
            /\ ~NoSamples(e) => Computed(get_growth(e))

\* C15 amended: get_growth returns the all-null record exactly when the weight samples
\* or the grad samples recorded since the last reset hold no number (none recorded, or
\* every one of them None); samples that are all None give the all-null record too.
C15_NullUnlessBothSampled ==
    \A p \in Positions : \A o \in DOMAIN heap[p] :
        LET e == heap[p][o]
        IN  /\ NoSamples(e) => get_growth(e) = NullGrowth
            /\ get_growth(e) = NullGrowth
                 <=> ~(HasNumber(e.growth_factor.weight) /\ HasNumber(e.growth_factor.grad))

\* C15 witness: an Edge with weight samples that are numbers and grad samples that are
\* all None, for which get_growth gives the all-null record
C15_Witness ==
    \E p \in Positions : \E o \in DOMAIN heap[p] :
        /\ HasNumber(heap[p][o].growth_factor.weight)
        /\ Len(heap[p][o].growth_factor.grad) > 0
        /\ ~HasNumber(heap[p][o].growth_factor.grad)
        /\ get_growth(heap[p][o]) = NullGrowth

(***************************************************************************)
(* Properties of the evaluation order and of the forward pass              *)
(***************************************************************************)
\* C16: calling set_op_order again on a cell built by construction and splits leaves
\* forward_iterator and output_node as they were.
C16_SetOpOrderIdempotent ==
    [][JustReturned("set_op_order") =>
          /\ cells'[ret'.pos].forward_iterator = cells[ret'.pos].forward_iterator
          /\ cells'[ret'.pos].output_node = cells[ret'.pos].output_node
          /\ cells' = cells]_vars

\* C16 witness: set_op_order was called again on a cell that had been split twice
C16_Witness ==
    /\ ret.op = "set_op_order" /\ ret.at = calls
    /\ Len(cells[ret.pos].edges) >= 5

\* the mask value a row gives the edge under key in the cell PosSeq[k]
MaskOf(row, k, key) == ShapGet(model_activation(row, k), key)

\* shap_forward has just returned for the network as it is now
ShapReturned == ret.op = "shap_forward" /\ ret.at = calls /\ pc = "idle"

\* C17 as stated: a mask value of 0 means the edge is evaluated through its normal
\* path and 1 through the identity bypass; the all-zeros baseline row runs the network
\* with no edge omitted and the all-ones row with every edge omitted.
C17_ZeroMeansPresent ==
    ShapReturned =>
        \A k \in DOMAIN ret.value : \A x \in DOMAIN ret.value[k].visits :
            LET v == ret.value[k].visits[x]
            IN  /\ MaskOf(ret.arg, k, v.edge) = 0 => ~v.omit /\ v.path # "shap_identity"
                /\ MaskOf(ret.arg, k, v.edge) = 1 => v.omit /\ v.path = "shap_identity"
                /\ ret.arg = activation_vectors_train(Len(ret.arg)) => ~v.omit
                /\ ret.arg = activation_vectors_test(Len(ret.arg)) => v.omit

\* C17 amended: a mask value of 0 means the edge is omitted (identity bypass) and 1
\* that it is evaluated through its normal path; the all-zeros baseline row runs the
\* network with every edge omitted and the all-ones row with no edge omitted.
C17_ZeroMeansMuted ==
    ShapReturned =>
        \A k \in DOMAIN ret.value : \A x \in DOMAIN ret.value[k].visits :
            LET v == ret.value[k].visits[x]
            IN  /\ MaskOf(ret.arg, k, v.edge) = 0 => v.omit /\ v.path = "shap_identity"
                /\ MaskOf(ret.arg, k, v.edge) = 1 => ~v.omit /\ v.path # "shap_identity"
                /\ ret.arg = activation_vectors_train(Len(ret.arg)) => v.omit
                /\ ret.arg = activation_vectors_test(Len(ret.arg)) => ~v.omit

\* C17 witness: shap_forward scored a row with a 0 and a 1 in it on a network with a
\* split cell, and every edge of every cell was visited
C17_Witness ==
    /\ ShapReturned
    /\ 0 \in Range(ret.arg) /\ 1 \in Range(ret.arg)
    /\ \E p \in Positions : Len(cells[p].edges) >= 3
    /\ \A k \in DOMAIN ret.value : Len(ret.value[k].visits) = Len(cells[PosSeq[k]].edges)

(***************************************************************************)
(* Properties of what split_edge and mutate return                         *)
(***************************************************************************)
AppliedSteps == SelectSeq(steps, LAMBDA st : st.applied)

PosOf(cc) == <<decode(cc, ",")[1], decode(cc, ",")[2]>>

\* C18: split_edge returns exactly the two new Edges, the ones placed at (i,j) and
\* (j,j+1), and never the original; mutate's lists hold the applied mutations as
\* (chain-cell key, pre-split edge key) in the order applied, two new Edges for each,
\* and nothing for skipped steps, so len(new_edges) = 2 * len(mutations) <= 2n.
C18_ReturnedEdges ==
    /\ [][SplitApplied =>
             LET new == cells'[SplitPos].edges
             IN  /\ last_split'.new_edges
                      = <<Lookup(new, EdgeKey(SplitI, SplitJ)),
                          Lookup(new, EdgeKey(SplitJ, SplitJ + 1))>>
                 /\ last_split'.orig \notin Range(last_split'.new_edges)
                 /\ Range(last_split'.new_edges) \cap (DOMAIN heap[SplitPos]) = {}]_vars
    /\ [](/\ Len(new_edges) = 2 * Len(mutations)
          /\ Len(mutations) <= step_i /\ step_i <= n_arg
          /\ mutations = [x \in DOMAIN AppliedSteps |->
                             <<AppliedSteps[x].cc, AppliedSteps[x].key>>]
          /\ NoDuplicates(new_edges)
          /\ \A x \in DOMAIN mutations :
                /\ new_edges[2 * x - 1][1] = PosOf(mutations[x][1])
                /\ new_edges[2 * x][1] = PosOf(mutations[x][1]))

\* C18 witness: mutate(3) returned two mutations and four new Edges, one step skipped
C18_Witness ==
    /\ pc = "idle" /\ outcome = "returned"
    /\ Len(steps) = 3 /\ Len(mutations) = 2 /\ Len(new_edges) = 4

\* C19: in the random-selection fallback a candidate always exists, and the step raises
\* no error, as long as some chain has had no split applied in the current call.
C19_CandidateExists ==
    outcome = "raised" =>
        \A c \in Chains : \E k \in DOMAIN steps : steps[k].applied /\ ChainOf(steps[k].cc) = c

\* the contributions a node's value must hold once every edge into it was evaluated
Incoming(cell, node) ==
    IF node = 0 THEN {InputX} ELSE {k \in KeySet(cell) : k[3] = node}

\* C20: in a forward pass over a cell built by splits every edge is evaluated, the
\* value of its source node is stored and holds the contribution of every edge into
\* that node, a node is discarded at its last outgoing edge and not read afterwards,
\* and the value at output_node is there when the walk ends.
C20_ForwardReadsStoredNodes ==
    ret.op = "forward" /\ ret.at = calls =>
        LET cell == cells[ret.pos]
            w == ret.value
        IN  /\ ~w.raised
            /\ Len(w.visits) = Len(cell.edges)
            /\ \A x \in DOMAIN w.visits :
                  /\ w.visits[x].read # None
                  /\ w.visits[x].read = <<Incoming(cell, w.visits[x].i)>>
                  /\ w.visits[x].last =>
                        \A y \in DOMAIN w.visits : y > x => w.visits[y].i # w.visits[x].i
                  /\ ~w.visits[x].last =>
                        \E y \in DOMAIN w.visits : y > x /\ w.visits[y].i = w.visits[x].i
            /\ w.value # None
            /\ w.value = <<Incoming(cell, cell.output_node)>>

\* C20 witness: a forward pass over a cell that was split twice, in which a node with
\* two incoming edges was read
C20_Witness ==
    /\ ret.op = "forward" /\ ret.at = calls
    /\ Len(cells[ret.pos].edges) >= 5
    /\ \E x \in DOMAIN ret.value.visits :
          ret.value.visits[x].read # None /\ Cardinality(ret.value.visits[x].read[1]) >= 2

(***************************************************************************)
(* Frame, naming, stride and abort properties                              *)
(***************************************************************************)
\* the budget gate rejects the step: overfill, or size + mut_size not below gpu_space
Rejected(st) == st.overfill \/ Exceeds(st) \/ Reaches(st)

\* C21: a budget-rejected step of mutate leaves every cell (edge mapping, forward order,
\* output_node) and every Edge (samples, lineage, name, num_ops) as they were and
\* appends nothing to mutations or new_edges; an accepted split leaves every other
\* cell and its Edges as they were.
C21_SkippedStepChangesNothing ==
    /\ [][StepTaken /\ Rejected(ThisStep) =>
             /\ cells' = cells /\ heap' = heap
             /\ mutations' = mutations /\ new_edges' = new_edges]_vars
    /\ [][StepTaken /\ ~Rejected(ThisStep) =>
             \A p \in Positions \ {PosOf(ThisStep.cc)} :
                 cells'[p] = cells[p] /\ heap'[p] = heap[p]]_vars

\* C21 witness: in a call on a network with growth samples, a split was applied in one
\* step and the next step was rejected
C21_Witness ==
    /\ pc = "loop" /\ Len(steps) >= 2
    /\ steps[1].applied /\ Rejected(steps[2]) /\ ~steps[2].applied
    /\ ~AllEdgesEmpty(heap)

\* C22: in a cell no two Edges of the mapping share a name, an Edge built later has a
\* larger name than every Edge built earlier, and every name in an Edge's lineage is
\* smaller than the Edge's own name.
C22_NamesUniqueIncreasing ==
    \A p \in Positions :
        /\ \A x, y \in DOMAIN cells[p].edges :
              x # y => heap[p][cells[p].edges[x].ref].name # heap[p][cells[p].edges[y].ref].name
        /\ \A o1, o2 \in DOMAIN heap[p] : o1 < o2 => heap[p][o1].name < heap[p][o2].name
        /\ \A o \in DOMAIN heap[p] : \A k \in DOMAIN heap[p][o].lineage :
              heap[p][o].lineage[k] < heap[p][o].name

\* C22 witness: a cell split twice, the second time on an Edge the first split built
C22_Witness ==
    \E p \in Positions :
        /\ Len(cells[p].edges) >= 5
        /\ \E o \in DOMAIN heap[p] : Len(heap[p][o].lineage) >= 2

StrideOf(p, key) == heap[p][Lookup(cells[p].edges, key)].dim.stride

LevelOf(p, key) == heap[p][Lookup(cells[p].edges, key)].dim.level

\* the numbers of stride-2 edges crossed on the paths from node 0 to node
RECURSIVE Halvings(_, _)
Halvings(p, node) ==
    IF node = 0 THEN {0}
    ELSE UNION {{h + (IF StrideOf(p, k) = 2 THEN 1 ELSE 0) : h \in Halvings(p, k[1])} :
                  k \in {e \in KeySet(cells[p]) : e[3] = node}}

\* C23: in a cell whose initial edge has stride 2 an edge has stride 2 exactly when its
\* source is node 0, every path from node 0 to a node k > 0 crosses exactly one
\* stride-2 edge and the edges into one node deliver the same dimension; in a cell
\* whose initial edge has stride 1 every edge has stride 1.
C23_StrideConsistency ==
    \A p \in Positions :
        IF heap[p][1].dim.stride = 2
        THEN /\ \A k \in KeySet(cells[p]) : StrideOf(p, k) = 2 <=> k[1] = 0
             /\ \A n \in 1..cells[p].output_node : Halvings(p, n) = {1}
             /\ \A k1, k2 \in KeySet(cells[p]) :
                   k1[3] = k2[3] => LevelOf(p, k1) = LevelOf(p, k2)
        ELSE \A k \in KeySet(cells[p]) : StrideOf(p, k) = 1

\* C23 witness: a reduction cell after two splits, one of them of a stride-2 edge later
\* than the first, so that three edges leave node 0
C23_Witness ==
    \E p \in Positions :
        /\ heap[p][1].dim.stride = 2
        /\ Len(cells[p].edges) >= 5
        /\ Cardinality({k \in KeySet(cells[p]) : k[1] = 0}) >= 3

\* the metric is null on every edge now, and was at every earlier step of the call
NullThroughout ==
    /\ \A x \in DOMAIN get_growth_factors : MetricOf(get_growth_factors[x]) = None
    /\ \A k \in DOMAIN steps : steps[k].mode = "random"

\* C24: with the metric null throughout a mutate(n) call, each step picks a position
\* not picked before; the step after the one that picked the last position finds no
\* candidate and the call ends with an error, no step skipped or repeated; the splits
\* applied so far stay in the graph, no Edge is reset and nothing is returned.
C24_AbortWhenPositionsExhausted ==
    /\ [][pc = "loop" /\ step_i < n_arg /\ NullThroughout
             /\ Len(steps) = Cardinality(Positions) =>
                /\ pc' = "idle" /\ outcome' = "raised"
                /\ cells' = cells /\ heap' = heap
                /\ steps' = steps /\ step_i' = step_i /\ ret' = ret]_vars
    /\ [][pc = "loop" /\ step_i < n_arg /\ NullThroughout
             /\ Len(steps) < Cardinality(Positions) =>
                /\ StepTaken /\ outcome' # "raised"
                /\ \A k \in DOMAIN steps : steps[k].cc # ThisStep.cc]_vars
    /\ [](outcome = "raised" =>
             /\ pc = "idle" /\ step_i < n_arg
             /\ \A k \in DOMAIN steps :
                   steps[k].applied => Len(cells[PosOf(steps[k].cc)].edges) >= 3)

\* C24 witness: a call that had applied a split ended with the error
C24_Witness ==
    /\ outcome = "raised" /\ mutations # <<>>
    /\ Len(steps) = Cardinality(Positions)

\* C25: the 'shap' field of the growth record is null for an Edge without samples even
\* when its SHAP value has been computed; a ranked step never selects such an Edge
\* first, and with metric 'shap' a step at which no Edge has samples takes the random
\* fallback although the values were refreshed at the start of the call.
C25_ShapNullWithoutSamples ==
    /\ [](\A p \in Positions : \A o \in DOMAIN heap[p] :
             /\ NoSamples(heap[p][o]) => get_growth(heap[p][o]).shap = None
             /\ get_growth(heap[p][o]).shap # None => ~NoSamples(heap[p][o]))
    /\ [][StepTaken /\ (\A po \in EdgeSet : NoSamples(heap[po[1]][po[2]]))
             => ThisStep.mode = "random"]_vars
    /\ [][StepTaken /\ ThisStep.mode = "ranked"
             => ~NoSamples(heap[PosOf(ThisStep.cc)][ThisStep.ref])]_vars

\* C25 witness: past the first epoch, the first step of a call took the random fallback
\* while an Edge without samples had its SHAP value computed
C25_Witness ==
    /\ hypers.epoch > 0 /\ hypers.metric = "shap"
    /\ Len(steps) >= 1 /\ steps[1].mode = "random"
    /\ \E p \in Positions : \E o \in DOMAIN heap[p] :
          heap[p][o].shap # None /\ NoSamples(heap[p][o])

====
